---- MODULE Spec2Model ----
(***************************************************************************)
(* Scam-Alert expert system: the rule engine (app/rules.py) and the        *)
(* /detect and /rules/reload handlers (app/main.py).                       *)
(*                                                                         *)
(* Python values are tagged records, so that a rule file may hold a value  *)
(* of any type where the code expects a mapping or a list:                 *)
(*   None_, PyBool(b), PyInt(i), Text(chars), List(items), Dict(kv)        *)
(* A dict is the sequence of its <<key, value>> pairs in insertion order;  *)
(* a string value is the sequence of its characters.  Scores are integers  *)
(* in tenths of a point (36.2 is 362), weights are whole numbers, and      *)
(* similarity scores and thresholds are in hundredths.                     *)
(***************************************************************************)
EXTENDS Integers, Sequences, FiniteSets, TLC

VARIABLES heap, engine_rules, reload_resp,
          pc, cur_event, it_ref, it_idx, hits, hard_stop,
          apply_result, detect_resp,
          snap, seen, before_rules, last_loaded,
          eval_in, eval_out, probe

vars == <<heap, engine_rules, reload_resp, pc, cur_event, it_ref, it_idx,
          hits, hard_stop, apply_result, detect_resp, snap, seen,
          before_rules, last_loaded, eval_in, eval_out, probe>>

engine_vars == <<heap, engine_rules, reload_resp, pc, cur_event, it_ref,
                 it_idx, hits, hard_stop, apply_result, detect_resp, snap,
                 seen, before_rules, last_loaded>>

-----------------------------------------------------------------------------
(* Python values *)

None_ == [t |-> "none"]
PyBool(b) == [t |-> "bool", b |-> b]
PyInt(i) == [t |-> "int", i |-> i]
Text(cs) == [t |-> "str", chars |-> cs]
List(xs) == [t |-> "list", items |-> xs]
Dict(kv) == [t |-> "dict", kv |-> kv]
\* the list contains_any builds by iterating a set: its order is the set's
SetList(S) == [t |-> "setlist", elems |-> S]

EmptyDict == Dict(<<>>)

\* bool(v)
Truthy(v) ==
  CASE v.t = "none" -> FALSE
    [] v.t = "bool" -> v.b
    [] v.t = "int" -> v.i # 0
    [] v.t = "str" -> Len(v.chars) > 0
    [] v.t = "list" -> Len(v.items) > 0
    [] v.t = "dict" -> Len(v.kv) > 0
    [] OTHER -> v.elems # {}

HasKey(d, k) == \E i \in 1..Len(d.kv) : d.kv[i][1] = k

\* d.get(k, default)
DictGet(d, k, default) ==
  IF HasKey(d, k)
  THEN d.kv[CHOOSE i \in 1..Len(d.kv) : d.kv[i][1] = k][2]
  ELSE default

\* d[k] = v: an existing key keeps its place, a new key goes last
DictSet(d, k, v) ==
  IF HasKey(d, k)
  THEN Dict([i \in 1..Len(d.kv) |->
               IF d.kv[i][1] = k THEN <<k, v>> ELSE d.kv[i]])
  ELSE Dict(Append(d.kv, <<k, v>>))

RECURSIVE UpdateFrom(_, _, _)
UpdateFrom(a, b, i) ==
  IF i > Len(b.kv) THEN a
  ELSE UpdateFrom(DictSet(a, b.kv[i][1], b.kv[i][2]), b, i + 1)

\* a.update(b)
DictUpdate(a, b) == UpdateFrom(a, b, 1)

\* sub in s, for strings
IsSubstr(sub, s) ==
  \E i \in 0..(Len(s) - Len(sub)) : SubSeq(s, i + 1, i + Len(sub)) = sub

\* str.lower() over the characters the model's texts use
LowerChar(c) ==
  CASE c = "O" -> "o" [] c = "T" -> "t" [] c = "P" -> "p" [] c = "N" -> "n"
    [] c = "W" -> "w" [] OTHER -> c

Lower(cs) == [i \in 1..Len(cs) |-> LowerChar(cs[i])]

\* int(v) and float(v): the number, or the exception the conversion raises
ToNumber(v) ==
  CASE v.t = "int" -> [exc |-> "none", n |-> v.i]
    [] v.t = "bool" -> [exc |-> "none", n |-> IF v.b THEN 1 ELSE 0]
    [] v.t = "str" -> [exc |-> "ValueError", n |-> 0]
    [] OTHER -> [exc |-> "TypeError", n |-> 0]

\* actual == bool(expected), for the values an event field may hold
EqualsBool(actual, b) ==
  CASE actual.t = "bool" -> actual.b = b
    [] actual.t = "int" -> actual.i = (IF b THEN 1 ELSE 0)
    [] OTHER -> FALSE

-----------------------------------------------------------------------------
(* Evidence primitives and condition handlers *)

Res(ok, ev) == [ok |-> ok, ev |-> ev, exc |-> "none"]
NoMatch == Res(FALSE, EmptyDict)
Raise(e) == [ok |-> FALSE, ev |-> EmptyDict, exc |-> e]

\* text or ""
TextOrEmpty(v) == IF v.t = "str" /\ Truthy(v) THEN v.chars ELSE <<>>

contains_any(text, terms) ==
  LET t == Lower(TextOrEmpty(text))
  IN  {term \in terms : IsSubstr(Lower(term.chars), t)}

\* the similarity itself is textdistance's; the event carries its value
lookalike_score(a, b, jw) ==
  IF ~Truthy(a) \/ ~Truthy(b) THEN 0 ELSE jw

\* set(values)
TermSet(values) ==
  CASE values.t = "list" -> {values.items[i] : i \in 1..Len(values.items)}
    [] values.t = "str" -> {Text(<<values.chars[i]>>) : i \in 1..Len(values.chars)}
    [] OTHER -> {}

_cond_contains_any(text, values) ==
  IF values.t \notin {"list", "str"} THEN Raise("TypeError")
  ELSE IF \E term \in TermSet(values) : term.t # "str"
  THEN IF \E term \in TermSet(values) : term.t \in {"list", "dict"}
       THEN Raise("TypeError") ELSE Raise("AttributeError")
  ELSE LET found == contains_any(text, TermSet(values))
       IN  IF found # {}
           THEN Res(TRUE, Dict(<< <<"matched_terms", SetList(found)>> >>))
           ELSE NoMatch

\* patterns are literal strings: re.search is a case-sensitive substring search
_cond_regex(text, pattern) ==
  IF pattern.t # "str" THEN Raise("TypeError")
  ELSE IF IsSubstr(pattern.chars, TextOrEmpty(text))
  THEN Res(TRUE, Dict(<< <<"regex", pattern>> >>))
  ELSE NoMatch

_cond_domain_mismatch(event, val) ==
  LET display == event.display_domain
      final == event.final_domain
  IN  IF Truthy(display) /\ Truthy(final) /\ display # final
      THEN Res(TRUE, Dict(<< <<"display_domain", display>>,
                             <<"final_domain", final>> >>))
      ELSE NoMatch

_cond_lookalike(event, threshold) ==
  LET score == lookalike_score(event.display_domain, event.final_domain,
                               event.lookalike)
      th == ToNumber(threshold)
  IN  IF th.exc # "none" THEN Raise(th.exc)
      ELSE IF score >= th.n
      THEN Res(TRUE, Dict(<< <<"lookalike_score", PyInt(score)>> >>))
      ELSE NoMatch

_cond_domain_age(event, max_days) ==
  LET sender == IF Truthy(event.sender) THEN event.sender ELSE EmptyDict
      days == DictGet(sender, "domain_age_days", None_)
      md == ToNumber(max_days)
  IN  IF days.t = "none" THEN NoMatch
      ELSE IF md.exc # "none" THEN Raise(md.exc)
      ELSE IF days.i < md.n
      THEN Res(TRUE, Dict(<< <<"domain_age_days", days>> >>))
      ELSE NoMatch

_cond_reports(event, threshold) ==
  LET rep == IF Truthy(event.reputation) THEN event.reputation ELSE EmptyDict
      count == DictGet(rep, "reports_last_90d", PyInt(0))
      th == ToNumber(threshold)
  IN  IF th.exc # "none" THEN Raise(th.exc)
      ELSE IF count.t = "none" THEN Raise("TypeError")
      ELSE IF count.i >= th.n
      THEN Res(TRUE, Dict(<< <<"reports_last_90d", count>> >>))
      ELSE NoMatch

_cond_blacklist(event, expected) ==
  LET rep == IF Truthy(event.reputation) THEN event.reputation ELSE EmptyDict
      actual == DictGet(rep, "global_blacklist", PyBool(FALSE))
  IN  IF EqualsBool(actual, Truthy(expected))
      THEN Res(TRUE, Dict(<< <<"global_blacklist", actual>> >>))
      ELSE NoMatch

_cond_mule(event, expected) ==
  LET sender == IF Truthy(event.sender) THEN event.sender ELSE EmptyDict
      actual == DictGet(sender, "confirmed_mule", PyBool(FALSE))
  IN  IF EqualsBool(actual, Truthy(expected))
      THEN Res(TRUE, Dict(<< <<"confirmed_mule", actual>> >>))
      ELSE NoMatch

\* the keys of RuleEngine.condition_handlers
condition_handlers ==
  {"text.contains_any", "text.regex", "url.display_domain_neq_final",
   "url.lookalike_threshold", "sender.domain_age_lt_days",
   "reputation.reports_last_90d_gte", "reputation.global_blacklist",
   "sender.confirmed_mule"}

\* handler(text, val) for the text.* keys, handler(event, val) for the others
Dispatch(event, key, val) ==
  CASE key = "text.contains_any" -> _cond_contains_any(event.text, val)
    [] key = "text.regex" -> _cond_regex(event.text, val)
    [] key = "url.display_domain_neq_final" -> _cond_domain_mismatch(event, val)
    [] key = "url.lookalike_threshold" -> _cond_lookalike(event, val)
    [] key = "sender.domain_age_lt_days" -> _cond_domain_age(event, val)
    [] key = "reputation.reports_last_90d_gte" -> _cond_reports(event, val)
    [] key = "reputation.global_blacklist" -> _cond_blacklist(event, val)
    [] OTHER -> _cond_mule(event, val)

-----------------------------------------------------------------------------
(* Evaluation *)

\* the first key of cond, in insertion order, that has a handler decides
eval_condition(event, cond) ==
  IF cond.t # "dict" THEN Raise("AttributeError")
  ELSE LET known == {i \in 1..Len(cond.kv) : cond.kv[i][1] \in condition_handlers}
       IN  IF known = {} THEN NoMatch
           ELSE LET i == CHOOSE j \in known : \A k \in known : j <= k
                IN  Dispatch(event, cond.kv[i][1], cond.kv[i][2])

\* what `for c in v` iterates, or the TypeError of a value that is not
\* iterable (a dict gives its keys, each kept whole as a one-element string)
IterItems(v) ==
  CASE v.t = "list" -> [exc |-> "none", items |-> v.items]
    [] v.t = "str" -> [exc |-> "none",
                       items |-> [i \in 1..Len(v.chars) |-> Text(<<v.chars[i]>>)]]
    [] v.t = "dict" -> [exc |-> "none",
                        items |-> [i \in 1..Len(v.kv) |-> Text(<<v.kv[i][1]>>)]]
    [] OTHER -> [exc |-> "TypeError", items |-> <<>>]

WithCalls(r, calls) == [ok |-> r.ok, ev |-> r.ev, exc |-> r.exc, calls |-> calls]

\* the `any` loop from child i on; calls lists the children handed to
\* eval_condition so far
RECURSIVE AnyLoopAll(_, _, _, _)
AnyLoopAll(event, cs, i, calls) ==
  IF i > Len(cs) THEN WithCalls(NoMatch, calls)
  ELSE LET r == eval_condition(event, cs[i])
           rest == AnyLoopAll(event, cs, i + 1, Append(calls, i))
       IN  IF r.exc # "none" THEN WithCalls(r, Append(calls, i))
           ELSE IF r.ok /\ ~(rest.ok /\ rest.exc = "none")
           THEN WithCalls(r, rest.calls)
           ELSE rest

RECURSIVE AnyLoop(_, _, _, _)
AnyLoop(event, cs, i, calls) ==
  IF i > Len(cs) THEN WithCalls(NoMatch, calls)
  ELSE LET r == eval_condition(event, cs[i])
       IN  IF r.exc # "none" \/ r.ok THEN WithCalls(r, Append(calls, i))
           ELSE AnyLoop(event, cs, i + 1, Append(calls, i))

\* the `all` loop from child i on, combined holding the evidence so far
RECURSIVE AllLoopFirstWins(_, _, _, _, _)
AllLoopFirstWins(event, cs, i, combined, calls) ==
  IF i > Len(cs) THEN WithCalls(Res(TRUE, combined), calls)
  ELSE LET r == eval_condition(event, cs[i])
       IN  IF r.exc # "none" THEN WithCalls(r, Append(calls, i))
           ELSE IF ~r.ok THEN WithCalls(NoMatch, Append(calls, i))
           ELSE AllLoopFirstWins(event, cs, i + 1, DictUpdate(r.ev, combined),
                                 Append(calls, i))

RECURSIVE AllLoop(_, _, _, _, _)
AllLoop(event, cs, i, combined, calls) ==
  IF i > Len(cs) THEN WithCalls(Res(TRUE, combined), calls)
  ELSE LET r == eval_condition(event, cs[i])
       IN  IF r.exc # "none" THEN WithCalls(r, Append(calls, i))
           ELSE IF ~r.ok THEN WithCalls(NoMatch, Append(calls, i))
           ELSE AllLoop(event, cs, i + 1, DictUpdate(combined, r.ev),
                        Append(calls, i))

\* "any" in conds / "all" in conds, by the type of conds
Contains(conds, word, chars) ==
  CASE conds.t = "dict" -> [exc |-> "none", b |-> HasKey(conds, word)]
    [] conds.t = "list" ->
         [exc |-> "none",
          b |-> \E i \in 1..Len(conds.items) : conds.items[i] = Text(chars)]
    [] conds.t = "str" -> [exc |-> "none", b |-> IsSubstr(chars, conds.chars)]
    [] OTHER -> [exc |-> "TypeError", b |-> FALSE]

\* conds["any"]: only a dict can be indexed by a string
Subscript(conds, word) ==
  IF conds.t = "dict" THEN [exc |-> "none", v |-> DictGet(conds, word, None_)]
  ELSE [exc |-> "TypeError", v |-> None_]

eval_conditions(event, conds) ==
  LET hasAny == Contains(conds, "any", <<"a", "n", "y">>)
      hasAll == Contains(conds, "all", <<"a", "l", "l">>)
  IN  IF hasAny.exc # "none" THEN WithCalls(Raise(hasAny.exc), <<>>)
      ELSE IF hasAny.b
      THEN LET v == Subscript(conds, "any")
               it == IterItems(v.v)
           IN  IF v.exc # "none" THEN WithCalls(Raise(v.exc), <<>>)
               ELSE IF it.exc # "none" THEN WithCalls(Raise(it.exc), <<>>)
               ELSE AnyLoop(event, it.items, 1, <<>>)
      ELSE IF hasAll.b
      THEN LET v == Subscript(conds, "all")
               it == IterItems(v.v)
           IN  IF v.exc # "none" THEN WithCalls(Raise(v.exc), <<>>)
               ELSE IF it.exc # "none" THEN WithCalls(Raise(it.exc), <<>>)
               ELSE AllLoop(event, it.items, 1, EmptyDict, <<>>)
      ELSE WithCalls(eval_condition(event, conds), <<0>>)

-----------------------------------------------------------------------------
(* Scoring *)

TIERS ==
  << [name |-> "T0", lo |-> 0, hi |-> 24],
     [name |-> "T1", lo |-> 25, hi |-> 49],
     [name |-> "T2", lo |-> 50, hi |-> 79],
     [name |-> "T3", lo |-> 80, hi |-> 100] >>

\* a score in tenths against the whole-number band limits
InBand(score, band) == band.lo * 10 <= score /\ score <= band.hi * 10

map_to_tier(score) ==
  LET fits == {i \in 1..Len(TIERS) : InBand(score, TIERS[i])}
  IN  IF fits # {}
      THEN TIERS[CHOOSE i \in fits : \A j \in fits : i <= j].name
      ELSE IF score > 1000 THEN "T3" ELSE "T0"

\* 10000 * e^(-h), 10000 * e^(-d/10) and 10000 * e^(-u/100), rounded
ExpUnits == <<10000, 3679, 1353, 498, 183, 67, 25, 9, 3, 1>>
ExpTenths == <<10000, 9048, 8187, 7408, 6703, 6065, 5488, 4966, 4493, 4066>>
ExpHundredths == <<10000, 9900, 9802, 9704, 9608, 9512, 9418, 9324, 9231, 9139>>

\* 1000 * math.exp(-total / 100.0) for a whole total >= 0, to within 1.1
ExpNeg(total) ==
  LET h == total \div 100
      d == (total \div 10) % 10
      u == total % 10
  IN  IF h >= Len(ExpUnits) THEN 0
      ELSE (((ExpUnits[h + 1] * ExpTenths[d + 1]) \div 10000)
             * ExpHundredths[u + 1]) \div 100000

RECURSIVE SumSeq(_)
SumSeq(ws) == IF ws = <<>> THEN 0 ELSE ws[1] + SumSeq(Tail(ws))

Min(a, b) == IF a <= b THEN a ELSE b

\* the weights added up with no diminishing returns
diminishing_sum_linear(weights) == SumSeq(weights) * 10

\* cap is left at its default, True
diminishing_sum(weights) ==
  LET total == SumSeq(weights)
      score == 1000 - ExpNeg(total)
  IN  Min(score, 1000)

\* BLEND_ALPHA's default, 0.7, in tenths
ALPHA == 7

\* alpha in tenths
blend_scores(expert, ml, alpha) == (alpha * expert + (10 - alpha) * ml) \div 10

-----------------------------------------------------------------------------
(* RuleEngine.apply *)

RuleHit(rule_id, weight, evidence) ==
  [rule_id |-> rule_id, weight |-> weight, evidence |-> evidence]

\* one pass of the loop over self.rules: r is skipped, appended as a hit, or
\* raises
ProcessRule(event, r, hs, stop) ==
  IF r.t # "dict" THEN [exc |-> "none", hits |-> hs, hard_stop |-> stop]
  ELSE LET res == eval_conditions(event, DictGet(r, "conditions", EmptyDict))
           w == ToNumber(DictGet(r, "weight", PyInt(0)))
       IN  IF res.exc # "none"
           THEN [exc |-> res.exc, hits |-> hs, hard_stop |-> stop]
           ELSE IF ~res.ok
           THEN [exc |-> "none", hits |-> hs, hard_stop |-> stop]
           ELSE IF ~HasKey(r, "id")
           THEN [exc |-> "KeyError", hits |-> hs, hard_stop |-> stop]
           ELSE IF w.exc # "none"
           THEN [exc |-> w.exc, hits |-> hs, hard_stop |-> stop]
           ELSE [exc |-> "none",
                 hits |-> Append(hs, RuleHit(DictGet(r, "id", None_), w.n, res.ev)),
                 hard_stop |-> stop \/ Truthy(DictGet(r, "hard_stop", PyBool(FALSE)))]

\* the keys of the dict apply returns
ApplyKeys == <<"hits", "hard_stop", "score", "tier">>

\* what apply does once the loop is over
ApplyResult(hs, stop) ==
  LET weights == [i \in 1..Len(hs) |-> hs[i].weight]
      expert_score == diminishing_sum(weights)
  IN  [exc |-> "none", keys |-> ApplyKeys, hits |-> hs, hard_stop |-> stop,
       score |-> expert_score, tier |-> map_to_tier(expert_score)]

ApplyRaised(e) ==
  [exc |-> e, keys |-> <<>>, hits |-> <<>>, hard_stop |-> FALSE,
   score |-> 0, tier |-> "T0"]

Pending == ApplyRaised("pending")

-----------------------------------------------------------------------------
(* /detect *)

action_codes(tier) ==
  CASE tier = "T0" -> <<"allow">>
    [] tier = "T1" -> <<"warn_user", "log">>
    [] tier = "T2" -> <<"strong_warn", "limit_actions", "request_verification">>
    [] OTHER -> <<"block", "escalate_manual_review">>

DetectError(e) ==
  [status |-> "error", exc |-> e, score |-> 0, tier |-> "T0",
   rule_hits |-> <<>>, actions |-> <<>>]

NoResponse == DetectError("pending")

\* detect once apply has returned `applied`; ml is the secondary scorer:
\* ml.ready is _ml_ready and ml.score what ml_score would return
detect(applied, ml) ==
  IF applied.exc # "none" THEN DetectError(applied.exc)
  ELSE IF Len(applied.keys) # 2
  THEN \* hits, hard_stop = engine.apply(e): a dict of four keys
       DetectError("ValueError")
  ELSE LET stop == applied.hard_stop
           expert_score == diminishing_sum(
                             [i \in 1..Len(applied.hits) |-> applied.hits[i].weight])
           score == IF stop THEN 1000
                    ELSE IF ml.ready
                    THEN blend_scores(expert_score, ml.score, ALPHA)
                    ELSE expert_score
           tier == IF stop THEN "T3" ELSE map_to_tier(score)
       IN  [status |-> "ok", exc |-> "none", score |-> score, tier |-> tier,
            rule_hits |-> SubSeq(applied.hits, 1, Min(5, Len(applied.hits))),
            actions |-> action_codes(tier)]

-----------------------------------------------------------------------------
(* Events and rule files *)

Chars_otp == <<"o", "t", "p">>
Chars_now == <<"n", "o", "w">>

\* a scam message sent from a look-alike domain by a confirmed mule
EvScam ==
  [text |-> Text(<<"O", "T", "P", " ", "n", "o", "w">>),
   display_domain |-> Text(<<"p", "a", "i">>),
   final_domain |-> Text(<<"p", "a", "l">>),
   sender |-> Dict(<< <<"domain_age_days", PyInt(12)>>,
                      <<"confirmed_mule", PyBool(TRUE)>> >>),
   reputation |-> Dict(<< <<"reports_last_90d", PyInt(4)>>,
                          <<"global_blacklist", PyBool(FALSE)>> >>),
   lookalike |-> 93]

\* Event()'s defaults but for the text
EvClean ==
  [text |-> Text(<<"h", "i">>),
   display_domain |-> Text(<<>>),
   final_domain |-> Text(<<>>),
   sender |-> Dict(<< <<"domain_age_days", None_>>,
                      <<"confirmed_mule", PyBool(FALSE)>> >>),
   reputation |-> Dict(<< <<"reports_last_90d", PyInt(0)>>,
                          <<"global_blacklist", PyBool(FALSE)>> >>),
   lookalike |-> 0]

Events == {EvScam, EvClean}

Rule(id, weight, stop, conds) ==
  Dict(<< <<"id", Text(id)>>, <<"weight", PyInt(weight)>>,
          <<"hard_stop", PyBool(stop)>>, <<"conditions", conds>> >>)

Leaf(key, val) == Dict(<< <<key, val>> >>)
AnyOf(cs) == Dict(<< <<"any", List(cs)>> >>)
AllOf(cs) == Dict(<< <<"all", List(cs)>> >>)

LeafOtpTerm == Leaf("text.contains_any", List(<<Text(Chars_otp)>>))
LeafNowRegex == Leaf("text.regex", Text(Chars_now))
LeafOtpRegex == Leaf("text.regex", Text(Chars_otp))
LeafNotListed == Leaf("reputation.global_blacklist", PyBool(FALSE))
LeafUnknown == Leaf("text.sentiment_lt", PyInt(0))

RuleMule == Rule(<<"R", "1">>, 10, TRUE, Leaf("sender.confirmed_mule", PyBool(TRUE)))
RuleOtp == Rule(<<"R", "2">>, 45, FALSE, AnyOf(<<LeafOtpTerm, LeafNowRegex>>))
RuleSpoof ==
  Rule(<<"R", "3">>, 45, FALSE,
       AllOf(<<Leaf("url.display_domain_neq_final", PyBool(TRUE)),
               Leaf("url.lookalike_threshold", PyInt(85))>>))
RuleNewDomain == Rule(<<"R", "4">>, 23, FALSE, Leaf("sender.domain_age_lt_days", PyInt(30)))
RuleReported ==
  Rule(<<"R", "5">>, 30, FALSE, Leaf("reputation.reports_last_90d_gte", PyInt(3)))

\* malformed records: one with no id, one whose conditions are null
RuleNoId ==
  Dict(<< <<"weight", PyInt(5)>>,
          <<"conditions", Leaf("sender.confirmed_mule", PyBool(TRUE))>> >>)
RuleNullConds ==
  Dict(<< <<"id", Text(<<"M", "2">>)>>, <<"weight", PyInt(5)>>,
          <<"conditions", None_>> >>)

RulesFile(rules) == [kind |-> "parsed", data |-> Dict(<< <<"rules", List(rules)>> >>)]

DocA == RulesFile(<<RuleMule, RuleOtp, RuleSpoof>>)
DocB == RulesFile(<<RuleNewDomain, RuleOtp, RuleReported>>)
DocMalformed == RulesFile(<<Text(<<"j", "u", "n", "k">>), RuleNoId, RuleNullConds>>)
\* an empty file: yaml.safe_load gives None
DocEmpty == [kind |-> "parsed", data |-> None_]
\* a file that cannot be opened, one that is not YAML, and one whose
\* document is a list
DocUnreadable == [kind |-> "unreadable", data |-> None_]
DocUnparseable == [kind |-> "unparseable", data |-> None_]
DocTopList == [kind |-> "parsed", data |-> List(<<RuleMule>>)]

Docs == {DocA, DocB, DocMalformed, DocEmpty, DocUnreadable, DocUnparseable,
         DocTopList}

\* worker threads serving /detect
Procs == {"w1", "w2"}

\* whether the classifier is loaded, and the score it gives
MlScores == {[ready |-> FALSE, score |-> 0], [ready |-> TRUE, score |-> 200]}

-----------------------------------------------------------------------------
(* The engine's rule list: cells of a heap, freed when nothing refers to    *)
(* them                                                                     *)

ObjIds == 1..(Cardinality(Procs) + 2)
NoRef == 0
Free == [t |-> "free"]

Alloc(h) == CHOOSE o \in ObjIds : h[o] = Free /\ \A q \in ObjIds : q < o => h[q] # Free

\* the workers in a fixed order
ProcSeq == <<"w1", "w2">>

RECURSIVE RefOrder(_, _, _)
RefOrder(order, ir, i) ==
  IF i > Len(ProcSeq) THEN order
  ELSE LET r == ir[ProcSeq[i]]
       IN  IF r = NoRef \/ \E j \in 1..Len(order) : order[j] = r
           THEN RefOrder(order, ir, i + 1)
           ELSE RefOrder(Append(order, r), ir, i + 1)

\* The heap with only the lists something still refers to (the engine, er,
\* or an iterator, ir), numbered in that order: which cell a list sits in
\* carries no meaning, only which references share it.
Collect(h, er, ir) ==
  LET order == RefOrder(<<er>>, ir, 1)
      pos(r) == CHOOSE i \in 1..Len(order) : order[i] = r
  IN  [heap |-> [o \in ObjIds |-> IF o <= Len(order) THEN h[order[o]] ELSE Free],
       engine_rules |-> 1,
       it_ref |-> [p \in Procs |-> IF ir[p] = NoRef THEN NoRef ELSE pos(ir[p])]]

\* load_rules that empties the list before it reads the file
load_rules_clear_first(h, ref, doc) ==
  LET cleared == [h EXCEPT ![ref] = List(<<>>)]
      data == IF Truthy(doc.data) THEN doc.data ELSE EmptyDict
  IN  IF doc.kind # "parsed" \/ data.t # "dict"
      THEN [exc |-> "RuntimeError", heap |-> cleared, rules |-> ref]
      ELSE LET o == Alloc(h)
           IN  [exc |-> "none",
                heap |-> [h EXCEPT ![o] = DictGet(data, "rules", List(<<>>))],
                rules |-> o]

\* load_rules that overwrites the list object in place
load_rules_in_place(h, ref, doc) ==
  LET data == IF Truthy(doc.data) THEN doc.data ELSE EmptyDict
  IN  IF doc.kind # "parsed" \/ data.t # "dict"
      THEN [exc |-> "RuntimeError", heap |-> h, rules |-> ref]
      ELSE [exc |-> "none",
            heap |-> [h EXCEPT ![ref] = DictGet(data, "rules", List(<<>>))],
            rules |-> ref]

\* load_rules with the file holding doc: self.rules is bound to the list the
\* parse built, or RuntimeError is raised with self.rules as it was
load_rules(h, ref, doc) ==
  LET data == IF Truthy(doc.data) THEN doc.data ELSE EmptyDict
  IN  IF doc.kind # "parsed" \/ data.t # "dict"
      THEN [exc |-> "RuntimeError", heap |-> h, rules |-> ref]
      ELSE LET o == Alloc(h)
           IN  [exc |-> "none",
                heap |-> [h EXCEPT ![o] = DictGet(data, "rules", List(<<>>))],
                rules |-> o]

\* len(engine.rules)
PyLen(v) ==
  CASE v.t = "list" -> [exc |-> "none", n |-> Len(v.items)]
    [] v.t = "str" -> [exc |-> "none", n |-> Len(v.chars)]
    [] v.t = "dict" -> [exc |-> "none", n |-> Len(v.kv)]
    [] OTHER -> [exc |-> "TypeError", n |-> 0]

-----------------------------------------------------------------------------
(* The service *)

\* worker p's iterator is dropped: the references left
Dropped(p) == Collect(heap, engine_rules, [it_ref EXCEPT ![p] = NoRef])

EvalIdle == [event |-> EvClean, conds |-> EmptyDict]
EvalNone == WithCalls(Raise("pending"), <<>>)
ProbeNone == [kind |-> "none"]

\* RuleEngine(RULES_PATH) has run with the rule file holding a document of
\* D: self.rules = [] and then load_rules(), which must not raise for the
\* module to import.  No request is being served.
InitEngine(D) ==
  /\ \E d \in D :
       LET h0 == [o \in ObjIds |-> IF o = 1 THEN List(<<>>) ELSE Free]
           r == load_rules(h0, 1, d)
           c == Collect(r.heap, r.rules, [p \in Procs |-> NoRef])
       IN  /\ r.exc = "none"
           /\ heap = c.heap
           /\ engine_rules = c.engine_rules
           /\ last_loaded = r.heap[r.rules]
  /\ reload_resp = [status |-> "none", exc |-> "none", count |-> 0]
  /\ before_rules = None_
  /\ pc = [p \in Procs |-> "idle"]
  /\ cur_event = [p \in Procs |-> EvClean]
  /\ it_ref = [p \in Procs |-> NoRef]
  /\ it_idx = [p \in Procs |-> 0]
  /\ hits = [p \in Procs |-> <<>>]
  /\ hard_stop = [p \in Procs |-> FALSE]
  /\ apply_result = [p \in Procs |-> Pending]
  /\ detect_resp = [p \in Procs |-> NoResponse]
  /\ snap = [p \in Procs |-> None_]
  /\ seen = [p \in Procs |-> <<>>]

Init ==
  /\ InitEngine(Docs)
  /\ eval_in = EvalIdle
  /\ eval_out = EvalNone
  /\ probe = ProbeNone

\* POST /rules/reload while the rule file holds d.  The file is read and
\* parsed without touching the engine; the one write is the assignment to
\* self.rules, and the count is read right after it.
Reload(d) ==
  LET r == load_rules(heap, engine_rules, d)
      n == PyLen(r.heap[r.rules])
      c == Collect(r.heap, r.rules, it_ref)
  IN  /\ heap' = c.heap
      /\ engine_rules' = c.engine_rules
      /\ it_ref' = c.it_ref
      /\ reload_resp' =
           IF r.exc # "none" THEN [status |-> "error", exc |-> r.exc, count |-> 0]
           ELSE IF n.exc # "none" THEN [status |-> "error", exc |-> n.exc, count |-> 0]
           ELSE [status |-> "ok", exc |-> "none", count |-> n.n]
      /\ before_rules' = IF r.exc # "none" THEN heap[engine_rules] ELSE None_
      /\ last_loaded' = IF r.exc # "none" THEN last_loaded ELSE r.heap[r.rules]
      /\ UNCHANGED <<pc, cur_event, it_idx, hits, hard_stop,
                     apply_result, detect_resp, snap, seen,
                     eval_in, eval_out, probe>>

\* POST /detect reaches engine.apply(e): hits = [], hard_stop = False and the
\* for loop takes its iterator over self.rules
DetectBegin(p, e) ==
  /\ pc[p] = "idle"
  /\ cur_event' = [cur_event EXCEPT ![p] = e]
  /\ hits' = [hits EXCEPT ![p] = <<>>]
  /\ hard_stop' = [hard_stop EXCEPT ![p] = FALSE]
  /\ detect_resp' = [detect_resp EXCEPT ![p] = NoResponse]
  /\ it_idx' = [it_idx EXCEPT ![p] = 0]
  /\ seen' = [seen EXCEPT ![p] = <<>>]
  /\ snap' = [snap EXCEPT ![p] = heap[engine_rules]]
  /\ IF IterItems(heap[engine_rules]).exc # "none"
     THEN /\ pc' = [pc EXCEPT ![p] = "returned"]
          /\ it_ref' = [it_ref EXCEPT ![p] = NoRef]
          /\ apply_result' = [apply_result EXCEPT
                                ![p] = ApplyRaised(IterItems(heap[engine_rules]).exc)]
     ELSE /\ pc' = [pc EXCEPT ![p] = "iter"]
          /\ it_ref' = [it_ref EXCEPT ![p] = engine_rules]
          /\ apply_result' = [apply_result EXCEPT ![p] = Pending]
  /\ UNCHANGED <<heap, engine_rules, reload_resp, before_rules, last_loaded,
                 eval_in, eval_out, probe>>

\* the loop's next rule, read from the list the iterator holds
ApplyStep(p) ==
  /\ pc[p] = "iter"
  /\ it_idx[p] < Len(IterItems(heap[it_ref[p]]).items)
  /\ LET r == IterItems(heap[it_ref[p]]).items[it_idx[p] + 1]
         out == ProcessRule(cur_event[p], r, hits[p], hard_stop[p])
     IN  /\ seen' = [seen EXCEPT ![p] = Append(@, r)]
         /\ it_idx' = [it_idx EXCEPT ![p] = @ + 1]
         /\ hits' = [hits EXCEPT ![p] = out.hits]
         /\ hard_stop' = [hard_stop EXCEPT ![p] = out.hard_stop]
         /\ IF out.exc # "none"
            THEN /\ pc' = [pc EXCEPT ![p] = "returned"]
                 /\ apply_result' = [apply_result EXCEPT ![p] = ApplyRaised(out.exc)]
                 /\ it_ref' = Dropped(p).it_ref
                 /\ heap' = Dropped(p).heap
            ELSE /\ UNCHANGED <<pc, apply_result, it_ref, heap>>
  /\ UNCHANGED <<engine_rules, reload_resp, before_rules, last_loaded,
                 cur_event, detect_resp, snap, eval_in, eval_out, probe>>

\* the loop is over: apply scores the hits and returns
ApplyReturn(p) ==
  /\ pc[p] = "iter"
  /\ it_idx[p] >= Len(IterItems(heap[it_ref[p]]).items)
  /\ pc' = [pc EXCEPT ![p] = "returned"]
  /\ apply_result' = [apply_result EXCEPT ![p] = ApplyResult(hits[p], hard_stop[p])]
  /\ it_ref' = Dropped(p).it_ref
  /\ heap' = Dropped(p).heap
  /\ UNCHANGED <<engine_rules, reload_resp, before_rules, last_loaded,
                 cur_event, it_idx, hits, hard_stop, detect_resp, snap, seen,
                 eval_in, eval_out, probe>>

\* the rest of detect, from the unpacking of apply's return value on; the
\* handler's locals go with it
DetectRespond(p) ==
  /\ pc[p] = "returned"
  /\ \E ml \in MlScores :
       detect_resp' = [detect_resp EXCEPT ![p] = detect(apply_result[p], ml)]
  /\ pc' = [pc EXCEPT ![p] = "idle"]
  /\ cur_event' = [cur_event EXCEPT ![p] = EvClean]
  /\ it_idx' = [it_idx EXCEPT ![p] = 0]
  /\ hits' = [hits EXCEPT ![p] = <<>>]
  /\ hard_stop' = [hard_stop EXCEPT ![p] = FALSE]
  /\ apply_result' = [apply_result EXCEPT ![p] = Pending]
  /\ snap' = [snap EXCEPT ![p] = None_]
  /\ seen' = [seen EXCEPT ![p] = <<>>]
  /\ UNCHANGED <<heap, engine_rules, reload_resp, before_rules, last_loaded,
                 it_ref, eval_in, eval_out, probe>>

Next ==
  \/ \E d \in Docs : Reload(d)
  \/ \E p \in Procs, e \in Events : DetectBegin(p, e)
  \/ \E p \in Procs : ApplyStep(p)
  \/ \E p \in Procs : ApplyReturn(p)
  \/ \E p \in Procs : DetectRespond(p)

Spec == Init /\ [][Next]_vars

-----------------------------------------------------------------------------
(* The condition evaluator on its own: every condition tree of at most      *)
(* MaxNodes nodes over EvalLeaves, against every event                      *)

MaxNodes == 4

LeafNoRegex == Leaf("text.regex", Text(<<"n", "o">>))

EvalLeaves == {LeafOtpTerm, LeafNowRegex, LeafNoRegex, LeafOtpRegex,
               LeafNotListed, LeafUnknown}

RECURSIVE TreesOfSize(_), ForestsOfSize(_)
TreesOfSize(n) ==
  (IF n = 1 THEN EvalLeaves ELSE {})
    \cup {AnyOf(f) : f \in ForestsOfSize(n - 1)}
    \cup {AllOf(f) : f \in ForestsOfSize(n - 1)}

ForestsOfSize(k) ==
  IF k = 0 THEN {<<>>}
  ELSE UNION {{<<t>> \o f : t \in TreesOfSize(j), f \in ForestsOfSize(k - j)} :
                j \in 1..k}

Trees == UNION {TreesOfSize(n) : n \in 1..MaxNodes}

InitEval ==
  /\ InitEngine({DocEmpty})
  /\ eval_in \in [event : Events, conds : Trees]
  /\ eval_out = EvalNone
  /\ probe = ProbeNone

Evaluate ==
  /\ eval_out.exc = "pending"
  /\ eval_out' = eval_conditions(eval_in.event, eval_in.conds)
  /\ UNCHANGED <<engine_vars, eval_in, probe>>

NextEval == Evaluate

SpecEval == InitEval /\ [][NextEval]_vars

-----------------------------------------------------------------------------
(* The scoring functions on their own *)

\* how far below 0 and above 100 the probed scores go, in tenths
ScoreSlack == 20
\* how far apart the two scores of a probe may lie, in tenths
MaxStep == 10
\* the longest weight sequence
MaxWeights == 3

Scores == (0 - ScoreSlack)..(1000 + ScoreSlack)
Weights == {0, 10, 23, 30, 45, 100}
WeightSeqs == UNION {[1..n -> Weights] : n \in 0..MaxWeights}

InitScore ==
  /\ InitEngine({DocEmpty})
  /\ eval_in = EvalIdle
  /\ eval_out = EvalNone
  /\ probe = ProbeNone

\* map_to_tier on two scores, s1 <= s2
ProbeTier(s1, s2) ==
  /\ probe.kind = "none"
  /\ probe' = [kind |-> "tier", s1 |-> s1, s2 |-> s2,
               t1 |-> map_to_tier(s1), t2 |-> map_to_tier(s2)]
  /\ UNCHANGED <<engine_vars, eval_in, eval_out>>

\* diminishing_sum on ws and on ws with w appended, and apply's scoring of
\* hits that carry the weights ws
ProbeSum(ws, w) ==
  /\ probe.kind = "none"
  /\ probe' = [kind |-> "sum", ws |-> ws, w |-> w,
               before |-> diminishing_sum(ws),
               after |-> diminishing_sum(Append(ws, w)),
               applied |-> ApplyResult(
                             [i \in 1..Len(ws) |->
                                RuleHit(Text(<<"R">>), ws[i], EmptyDict)],
                             FALSE)]
  /\ UNCHANGED <<engine_vars, eval_in, eval_out>>

NextScore ==
  /\ probe.kind = "none"
  /\ \/ \E s1 \in Scores : \E s2 \in s1..Min(s1 + MaxStep, 1000 + ScoreSlack) :
          ProbeTier(s1, s2)
     \/ \E ws \in WeightSeqs, w \in Weights : ProbeSum(ws, w)

SpecScore == InitScore /\ [][NextScore]_vars

-----------------------------------------------------------------------------
(* Properties *)

Rank(tier) == CHOOSE i \in 1..Len(TIERS) : TIERS[i].name = tier

Returned(p) == pc[p] = "returned" /\ apply_result[p].exc = "none"

\* C1: whenever a matched rule has hard_stop set, apply returns score 100
\* and tier T3, and the /detect response built from it carries score 100 and
\* tier T3, whatever the matched weights and the secondary score.
C1_HardStopForcesT3 ==
  \A p \in Procs :
    (Returned(p) /\ apply_result[p].hard_stop) =>
      /\ apply_result[p].score = 1000
      /\ apply_result[p].tier = "T3"
      /\ \A ml \in MlScores :
           LET resp == detect(apply_result[p], ml)
           IN  resp.status = "ok" /\ resp.score = 1000 /\ resp.tier = "T3"

\* C2: map_to_tier never maps the higher of two scores to the lower tier;
\* every score in [0,100] lies in exactly one band, the one map_to_tier
\* names; a score above 100 maps to T3 and one below 0 to T0.
C2_TierMonotonicGapFree ==
  probe.kind = "tier" =>
    /\ Rank(probe.t1) <= Rank(probe.t2)
    /\ (0 <= probe.s1 /\ probe.s1 <= 1000) =>
         /\ Cardinality({i \in 1..Len(TIERS) : InBand(probe.s1, TIERS[i])}) = 1
         /\ InBand(probe.s1, TIERS[Rank(probe.t1)])
    /\ probe.s1 > 1000 => probe.t1 = "T3"
    /\ probe.s1 < 0 => probe.t1 = "T0"

\* where in the rule list being evaluated the rule of a hit stands
RulePos(rules, hit) ==
  CHOOSE i \in 1..Len(rules.items) :
    rules.items[i].t = "dict" /\ DictGet(rules.items[i], "id", None_) = hit.rule_id

\* C3: the hits apply returns are in descending order of weight, and hits
\* of equal weight are in the order of their rules in the rule list.
C3_HitsByDescendingWeight ==
  \A p \in Procs :
    Returned(p) =>
      \A i, j \in 1..Len(apply_result[p].hits) :
        i < j =>
          LET a == apply_result[p].hits[i]
              b == apply_result[p].hits[j]
          IN  /\ a.weight >= b.weight
              /\ a.weight = b.weight => RulePos(snap[p], a) < RulePos(snap[p], b)

\* C4: apply never raises, whatever the rule list holds.
C4_ApplyNeverRaises ==
  \A p \in Procs : pc[p] = "returned" => apply_result[p].exc = "none"

\* C5: an evaluation reads its rules from one rule list only, the one that
\* was the engine's when its loop began: a reload leaves that list as it
\* was, and the rules read so far are the first rules of that list, all of
\* them once the loop is over.
C5_EvaluationSeesOneRuleSet ==
  \A p \in Procs :
    /\ pc[p] = "iter" =>
         /\ heap[it_ref[p]] = snap[p]
         /\ seen[p] = SubSeq(snap[p].items, 1, it_idx[p])
    /\ Returned(p) => seen[p] = snap[p].items

\* an evaluation is part-way through a rule list that a reload has replaced
C5_Witness ==
  \E p \in Procs :
    /\ pc[p] = "iter"
    /\ it_idx[p] >= 1 /\ it_idx[p] < Len(snap[p].items)
    /\ reload_resp.status = "ok"
    /\ it_ref[p] # engine_rules
    /\ heap[engine_rules] # snap[p]

\* the boolean value of a condition tree: any is true when a child is, all
\* when every child is, a leaf as eval_condition says
RECURSIVE Holds(_, _)
Holds(event, tree) ==
  IF HasKey(tree, "any")
  THEN \E i \in 1..Len(DictGet(tree, "any", None_).items) :
         Holds(event, DictGet(tree, "any", None_).items[i])
  ELSE IF HasKey(tree, "all")
  THEN \A i \in 1..Len(DictGet(tree, "all", None_).items) :
         Holds(event, DictGet(tree, "all", None_).items[i])
  ELSE eval_condition(event, tree).ok

Evaluated == eval_out.exc = "none"

\* C6: eval_conditions returns the boolean value of the whole tree, also
\* when a combinator is the child of another.
C6_NestedCombinatorsEvaluated ==
  Evaluated => eval_out.ok = Holds(eval_in.event, eval_in.conds)

\* C7: for non-negative weights diminishing_sum stays within [0,100], is 0
\* for no weights, does not decrease when a weight is appended, and
\* [45] scores below [45,30]; so does the score apply returns.
C7_AggregateBoundedMonotone ==
  probe.kind = "sum" =>
    /\ 0 <= probe.before /\ probe.before <= 1000
    /\ 0 <= probe.after /\ probe.after <= 1000
    /\ probe.before <= probe.after
    /\ probe.ws = <<>> => probe.before = 0
    /\ (probe.ws = <<45>> /\ probe.w = 30) => probe.before < probe.after
    /\ probe.applied.score = probe.before

\* the weights of the repository's own test
C7_Witness == probe.kind = "sum" /\ probe.ws = <<45>> /\ probe.w = 30

\* the children of the combinator at the root of the tree being evaluated
Children(word) == DictGet(eval_in.conds, word, None_).items
ChildRes(word, i) == eval_condition(eval_in.event, Children(word)[i])
UpTo(n) == [i \in 1..n |-> i]

\* C8: an any node hands its children to the evaluator in order up to the
\* first that matches and returns true with that child's evidence; when no
\* child matches it has tried them all and returns false with no evidence.
C8_AnyStopsAtFirstMatch ==
  (Evaluated /\ HasKey(eval_in.conds, "any")) =>
    LET n == Len(Children("any"))
        matching == {i \in 1..n : ChildRes("any", i).ok}
    IN  IF matching = {}
        THEN ~eval_out.ok /\ eval_out.ev = EmptyDict /\ eval_out.calls = UpTo(n)
        ELSE LET k == CHOOSE i \in matching : \A j \in matching : i <= j
             IN  /\ eval_out.ok
                 /\ eval_out.ev = ChildRes("any", k).ev
                 /\ eval_out.calls = UpTo(k)

\* [A fails, B matches, C matches] has been evaluated
C8_Witness ==
  /\ Evaluated /\ HasKey(eval_in.conds, "any")
  /\ Len(Children("any")) = 3
  /\ ~ChildRes("any", 1).ok
  /\ ChildRes("any", 2).ok
  /\ ChildRes("any", 3).ok
  /\ ChildRes("any", 3).ev # ChildRes("any", 2).ev

\* C9: an all node hands its children to the evaluator in order up to the
\* first that fails and then returns false with no evidence; when every
\* child matches it returns true with the union of their evidence, the
\* value of a key being that of the last child that has the key.
C9_AllMergesLaterWins ==
  (Evaluated /\ HasKey(eval_in.conds, "all")) =>
    LET n == Len(Children("all"))
        failing == {i \in 1..n : ~ChildRes("all", i).ok}
    IN  IF failing # {}
        THEN LET k == CHOOSE i \in failing : \A j \in failing : i <= j
             IN  ~eval_out.ok /\ eval_out.ev = EmptyDict /\ eval_out.calls = UpTo(k)
        ELSE /\ eval_out.ok
             /\ eval_out.calls = UpTo(n)
             /\ \A i \in 1..n : \A j \in 1..Len(ChildRes("all", i).ev.kv) :
                  LET key == ChildRes("all", i).ev.kv[j][1]
                      last == CHOOSE l \in 1..n :
                                /\ HasKey(ChildRes("all", l).ev, key)
                                /\ \A m \in 1..n :
                                     HasKey(ChildRes("all", m).ev, key) => m <= l
                  IN  /\ HasKey(eval_out.ev, key)
                      /\ DictGet(eval_out.ev, key, None_)
                           = DictGet(ChildRes("all", last).ev, key, None_)
             /\ \A j \in 1..Len(eval_out.ev.kv) :
                  \E i \in 1..n : HasKey(ChildRes("all", i).ev, eval_out.ev.kv[j][1])

\* two matching children give the same evidence key different values
C9_Witness ==
  /\ Evaluated /\ HasKey(eval_in.conds, "all")
  /\ eval_out.ok
  /\ \E i, j \in 1..Len(Children("all")) :
       /\ i < j
       /\ \E key \in {"regex"} :
            /\ HasKey(ChildRes("all", i).ev, key)
            /\ HasKey(ChildRes("all", j).ev, key)
            /\ DictGet(ChildRes("all", i).ev, key, None_)
                 # DictGet(ChildRes("all", j).ev, key, None_)

\* C10: the engine's rule list is the one the last load that did not raise
\* installed; after a reload that raised it is the list it was before.
C10_FailedReloadKeepsRules ==
  /\ heap[engine_rules] = last_loaded
  /\ reload_resp.exc = "RuntimeError" => heap[engine_rules] = before_rules
  /\ \A p \in Procs : (pc[p] = "iter" /\ it_ref[p] = engine_rules) => snap[p] = last_loaded

\* a reload has raised over a rule list that holds rules, and an evaluation
\* is running on that list
C10_Witness ==
  /\ reload_resp.exc = "RuntimeError"
  /\ Len(before_rules.items) > 0
  /\ \E p \in Procs : pc[p] = "iter" /\ it_ref[p] = engine_rules /\ it_idx[p] = 0

====
